---- MODULE Spec2Model ----
(***************************************************************************)
(* Model of server.py of snap-store-mcp: the two text parsers              *)
(* (parse_snap_search, parse_snap_info) and the dispatcher call_tool.      *)
(*                                                                         *)
(* A Python str is a sequence of one-character strings.  A Python list is  *)
(* a sequence, a dict a function whose domain is its key set, None of an   *)
(* Optional[str] the empty tuple and a set value the one-element tuple.    *)
(* One behaviour is one call of call_tool, the parsers' loops unrolled one *)
(* iteration per step.                                                     *)
(***************************************************************************)
EXTENDS Integers, Sequences, FiniteSets, TLC

VARIABLES
    pc,             \* position of the call: start, run, parse, search_loop,
                    \* info_loop, dumps, except, done
    name,           \* call_tool's name argument
    arguments,      \* call_tool's arguments dict
    cmd,            \* the argv handed to subprocess.run
    proc,           \* Optional CompletedProcess: returncode, stdout, stderr
    exc,            \* the exception in flight ("" when none)
    lines,          \* the parser's lines list
    i,              \* index (1-based) of the next line the parser's loop takes
    packages,       \* parse_snap_search's packages list
    info,           \* parse_snap_info's info dict
    current_key,    \* parse_snap_info's current_key (Optional[str])
    current_value,  \* parse_snap_info's current_value (list of str)
    parsed,         \* what the parser returned to call_tool
    result,         \* what call_tool returned: [kind, items]
    parserCalls     \* history: number of parser invocations in this call

vars == <<pc, name, arguments, cmd, proc, exc, lines, i, packages, info,
          current_key, current_value, parsed, result, parserCalls>>

----------------------------------------------------------------------------
(* Bounds of the model. *)

\* longest text drawn character by character
MaxLen == 6
\* most lines of a text drawn as a table of token rows
MaxLines == 3

----------------------------------------------------------------------------
(* Characters and Python's str primitives. *)

SP == " "
TAB == "\t"
NL == "\n"
COLON == ":"

\* the characters str.strip() and str.split() treat as whitespace
Whitespace == {" ", "\t", "\n", "\r", "\f"}

None == <<>>
Some(x) == <<x>>

\* Python truthiness of an Optional[str]: None and "" are falsy
Truthy(opt) == opt # None /\ opt[1] # <<>>

RECURSIVE LStrip(_)
LStrip(s) ==
    IF s = <<>> THEN s
    ELSE IF Head(s) \in Whitespace THEN LStrip(Tail(s)) ELSE s

RECURSIVE RStrip(_)
RStrip(s) ==
    IF s = <<>> THEN s
    ELSE IF s[Len(s)] \in Whitespace THEN RStrip(SubSeq(s, 1, Len(s) - 1)) ELSE s

\* str.strip()
Strip(s) == RStrip(LStrip(s))

\* c in s
Contains(s, c) == \E k \in 1..Len(s) : s[k] = c

\* s.find(c), 1-based; Len(s) + 1 when absent
RECURSIVE FindFrom(_, _, _)
FindFrom(s, c, k) ==
    IF k > Len(s) THEN k
    ELSE IF s[k] = c THEN k ELSE FindFrom(s, c, k + 1)

\* s.split(c) for a one-character separator
RECURSIVE SplitOn(_, _)
SplitOn(s, c) ==
    LET k == FindFrom(s, c, 1) IN
    IF k > Len(s) THEN <<s>>
    ELSE <<SubSeq(s, 1, k - 1)>> \o SplitOn(SubSeq(s, k + 1, Len(s)), c)

\* s.split(c, 1)
SplitOnce(s, c) ==
    LET k == FindFrom(s, c, 1) IN
    IF k > Len(s) THEN <<s>>
    ELSE <<SubSeq(s, 1, k - 1), SubSeq(s, k + 1, Len(s))>>

\* index of the first whitespace character at or after k; Len(s) + 1 when none
RECURSIVE FindWs(_, _)
FindWs(s, k) ==
    IF k > Len(s) THEN k
    ELSE IF s[k] \in Whitespace THEN k ELSE FindWs(s, k + 1)

\* s.split(): the maximal runs of non-whitespace characters
RECURSIVE SplitWs(_)
SplitWs(s) ==
    LET t == LStrip(s) IN
    IF t = <<>> THEN <<>>
    ELSE LET k == FindWs(t, 1) IN
         <<SubSeq(t, 1, k - 1)>> \o SplitWs(SubSeq(t, k, Len(t)))

\* sep.join(parts)
RECURSIVE Join(_, _)
Join(sep, parts) ==
    IF parts = <<>> THEN <<>>
    ELSE IF Len(parts) = 1 THEN parts[1]
    ELSE parts[1] \o sep \o Join(sep, Tail(parts))

\* s.startswith(prefix)
StartsWith(s, prefix) ==
    /\ Len(s) >= Len(prefix)
    /\ SubSeq(s, 1, Len(prefix)) = prefix

----------------------------------------------------------------------------
(* The texts the external command may print. *)

\* the characters texts are drawn from
Alphabet == {"a", COLON, SP, TAB, NL}

\* every text of at most MaxLen characters
CharTexts == UNION {[1..n -> Alphabet] : n \in 0..MaxLen}

\* a table row's tokens, by column
TokenLetters == <<"n", "v", "p", "o", "s", "t", "u">>

\* how many tokens a table row may hold
TokenCounts == {0, 3, 4, 5, 6}

RowStyles == {"plain", "ragged"}

RowSep(style, k) ==
    IF style = "plain" THEN <<SP>>
    ELSE IF k % 2 = 1 THEN <<TAB>> ELSE <<SP, SP>>

RECURSIVE RowTokens(_, _, _)
RowTokens(k, n, style) ==
    IF k > n THEN <<>>
    ELSE <<TokenLetters[k]>> \o (IF k < n THEN RowSep(style, k) ELSE <<>>)
         \o RowTokens(k + 1, n, style)

\* a row of n tokens: single spaces, or ragged spacing with blanks around it
Row(n, style) ==
    IF style = "plain" THEN RowTokens(1, n, style)
    ELSE <<SP>> \o RowTokens(1, n, style) \o <<SP>>

Rows == {Row(n, style) : n \in TokenCounts, style \in RowStyles}

\* every text of at most MaxLines table rows, each ended by a newline
TableTexts ==
    {Join(<<NL>>, ls) \o <<NL>> : ls \in UNION {[1..n -> Rows] : n \in 0..MaxLines}}

Stdouts == CharTexts \cup TableTexts

\* what a failed command may leave on its standard output
FailureStdouts == {t \in CharTexts : Len(t) <= 2}

\* what a failed command may leave on its error stream
Stderrs == {<<>>, <<NL>>, <<"e">>, <<"e", NL>>, <<SP, "e">>}

\* the outcomes of subprocess.run: exit status and captured streams (the
\* error stream of a successful command is never read, and is left empty)
Outcomes ==
    {[returncode |-> 0, stdout |-> o, stderr |-> <<>>] : o \in Stdouts}
    \cup {[returncode |-> r, stdout |-> o, stderr |-> e] :
            r \in {1, 64}, o \in FailureStdouts, e \in Stderrs}

ToolNames == {"search_snaps", "snap_info", "install_snap"}

ArgNames == {"query", "package_name"}

\* every arguments dict: any subset of the argument names present
ArgumentDicts == UNION {[S -> {<<"v", "l", "c">>}] : S \in SUBSET ArgNames}

----------------------------------------------------------------------------
(* parse_snap_search *)

\* a guard that lets rows of three tokens through
MinFields_three == 5 - 2

\* len(parts) >= 5
MinFields == 5

\* the loop taking the header line as a row
DataLines_withHeader(ls) == ls

\* lines[1:]
DataLines(ls) == SubSeq(ls, 2, Len(ls))

\* the dict appended for one row
PackageRecord(parts) ==
    [name |-> parts[1], version |-> parts[2], publisher |-> parts[3],
     notes |-> parts[4], summary |-> Join(<<SP>>, SubSeq(parts, 5, Len(parts)))]

\* lines = output.strip().split('\n')
TextLines(output) == SplitOn(Strip(output), NL)

ParseSearchStart ==
    /\ pc = "parse"
    /\ name = "search_snaps"
    /\ parserCalls' = parserCalls + 1
    /\ lines' = TextLines(proc[1].stdout)
    /\ packages' = <<>>
    /\ i' = 1
    /\ IF Len(lines') < 2
       THEN /\ parsed' = <<>>
            /\ pc' = "dumps"
       ELSE /\ parsed' = parsed
            /\ pc' = "search_loop"
    /\ UNCHANGED <<name, arguments, cmd, proc, exc, info, current_key,
                   current_value, result>>

\* one iteration of the for loop; parts[0..3] raise IndexError when absent
ParseSearchLine ==
    /\ pc = "search_loop"
    /\ i <= Len(DataLines(lines))
    /\ LET parts == SplitWs(DataLines(lines)[i]) IN
       IF Len(parts) >= MinFields
       THEN IF Len(parts) < 4
            THEN /\ exc' = "IndexError"
                 /\ pc' = "except"
                 /\ UNCHANGED <<packages, i>>
            ELSE /\ packages' = Append(packages, PackageRecord(parts))
                 /\ i' = i + 1
                 /\ UNCHANGED <<pc, exc>>
       ELSE /\ i' = i + 1
            /\ UNCHANGED <<pc, exc, packages>>
    /\ UNCHANGED <<name, arguments, cmd, proc, lines, info, current_key,
                   current_value, parsed, result, parserCalls>>

ParseSearchReturn ==
    /\ pc = "search_loop"
    /\ i > Len(DataLines(lines))
    /\ parsed' = packages
    /\ pc' = "dumps"
    /\ UNCHANGED <<name, arguments, cmd, proc, exc, lines, i, packages, info,
                   current_key, current_value, result, parserCalls>>

----------------------------------------------------------------------------
(* parse_snap_info *)

\* info[key] = value
DictSet(d, key, value) ==
    [k \in DOMAIN d \cup {key} |-> IF k = key THEN value ELSE d[k]]

\* ':' in line and not line.startswith(' ')
IsNewField(line) == Contains(line, COLON) /\ ~StartsWith(line, <<SP>>)

\* current_key and line.startswith(' ')
IsContinuation(key, line) == Truthy(key) /\ StartsWith(line, <<SP>>)

\* if current_key: info[current_key] = '\n'.join(current_value)
Commit(d, key, value) ==
    IF Truthy(key) THEN DictSet(d, key[1], Join(<<NL>>, value)) ELSE d

\* the body of the for loop, on the state st = [info, current_key,
\* current_value, raised]; the tuple unpacking raises ValueError unless the
\* split gives two parts
InfoStep(st, line) ==
    IF IsNewField(line)
    THEN LET kv == SplitOnce(line, COLON) IN
         IF Len(kv) # 2
         THEN [st EXCEPT !.raised = "ValueError"]
         ELSE [info |-> Commit(st.info, st.current_key, st.current_value),
               current_key |-> Some(Strip(kv[1])),
               current_value |-> <<Strip(kv[2])>>,
               raised |-> ""]
    ELSE IF IsContinuation(st.current_key, line)
    THEN [st EXCEPT !.current_value = Append(@, Strip(line))]
    ELSE st

ParseInfoStart ==
    /\ pc = "parse"
    /\ name = "snap_info"
    /\ parserCalls' = parserCalls + 1
    /\ info' = <<>>
    /\ lines' = TextLines(proc[1].stdout)
    /\ current_key' = None
    /\ current_value' = <<>>
    /\ i' = 1
    /\ pc' = "info_loop"
    /\ UNCHANGED <<name, arguments, cmd, proc, exc, packages, parsed, result>>

ParseInfoLine ==
    /\ pc = "info_loop"
    /\ i <= Len(lines)
    /\ LET st == InfoStep([info |-> info, current_key |-> current_key,
                           current_value |-> current_value, raised |-> ""],
                          lines[i]) IN
       IF st.raised # ""
       THEN /\ exc' = st.raised
            /\ pc' = "except"
            /\ UNCHANGED <<info, current_key, current_value, i>>
       ELSE /\ info' = st.info
            /\ current_key' = st.current_key
            /\ current_value' = st.current_value
            /\ i' = i + 1
            /\ UNCHANGED <<pc, exc>>
    /\ UNCHANGED <<name, arguments, cmd, proc, lines, packages, parsed,
                   result, parserCalls>>

\* the commit after the loop, and return info
ParseInfoReturn ==
    /\ pc = "info_loop"
    /\ i > Len(lines)
    /\ info' = Commit(info, current_key, current_value)
    /\ parsed' = info'
    /\ pc' = "dumps"
    /\ UNCHANGED <<name, arguments, cmd, proc, exc, lines, i, packages,
                   current_key, current_value, result, parserCalls>>

----------------------------------------------------------------------------
(* call_tool *)

SnapWord == <<"s", "n", "a", "p">>
SearchWord == <<"s", "e", "a", "r", "c", "h">>
InfoWord == <<"i", "n", "f", "o">>
NoDetails == <<"N", "o", " ", "e", "r", "r", "o", "r", " ", "d", "e", "t", "a", "i", "l", "s", " ", "a", "v", "a", "i", "l", "a", "b", "l", "e">>

KnownTools == {"search_snaps", "snap_info"}

\* the argument each branch reads
ArgKey(tool) == IF tool = "search_snaps" THEN "query" ELSE "package_name"

\* the argv each branch runs
CommandLine(tool, arg) ==
    <<SnapWord, IF tool = "search_snaps" THEN SearchWord ELSE InfoWord, arg>>

\* subprocess.run without check=True
CheckExit_off == FALSE

\* check=True: a non-zero exit status raises CalledProcessError
CheckExit == TRUE

\* json.dumps(x, indent=2): the serialised text, kept as the value it encodes
JsonDumps(x) == [json |-> x]

TextContent(t) == [type |-> "text", text |-> t]

\* e.stderr.strip() if e.stderr else "No error details available"
StderrField(err) == IF err # <<>> THEN Strip(err) ELSE NoDetails

CommandFailed(argv, err) ==
    [error |-> "Command failed",
     command |-> Join(<<SP>>, argv),
     stderr |-> StderrField(err),
     suggestion |-> "Check if the package name is correct. Try using 'search_snaps' first."]

UnexpectedError(e) ==
    [error |-> "Unexpected error",
     details |-> e,
     suggestion |-> "Please report this issue on GitHub"]

\* arguments["query"] / arguments["package_name"]: KeyError when absent
FetchArgument ==
    /\ pc = "start"
    /\ name \in KnownTools
    /\ IF ArgKey(name) \in DOMAIN arguments
       THEN /\ cmd' = CommandLine(name, arguments[ArgKey(name)])
            /\ pc' = "run"
            /\ exc' = exc
       ELSE /\ exc' = "KeyError"
            /\ pc' = "except"
            /\ cmd' = cmd
    /\ UNCHANGED <<name, arguments, proc, lines, i, packages, info,
                   current_key, current_value, parsed, result, parserCalls>>

\* neither branch of the if/elif is taken: the function ends and returns None
ReturnNone ==
    /\ pc = "start"
    /\ name \notin KnownTools
    /\ result' = [kind |-> "None", items |-> <<>>]
    /\ pc' = "done"
    /\ UNCHANGED <<name, arguments, cmd, proc, exc, lines, i, packages, info,
                   current_key, current_value, parsed, parserCalls>>

\* subprocess.run starts the command and it exits
SubprocessRun ==
    /\ pc = "run"
    /\ \E o \in Outcomes :
        /\ proc' = Some(o)
        /\ IF CheckExit /\ o.returncode # 0
           THEN /\ exc' = "CalledProcessError"
                /\ pc' = "except"
           ELSE /\ exc' = exc
                /\ pc' = "parse"
    /\ UNCHANGED <<name, arguments, cmd, lines, i, packages, info,
                   current_key, current_value, parsed, result, parserCalls>>

\* subprocess.run cannot start the command (no snap executable)
SubprocessLaunchFails ==
    /\ pc = "run"
    /\ exc' = "FileNotFoundError"
    /\ pc' = "except"
    /\ UNCHANGED <<name, arguments, cmd, proc, lines, i, packages, info,
                   current_key, current_value, parsed, result, parserCalls>>

\* output = json.dumps(...); return [TextContent(type="text", text=output)]
Respond ==
    /\ pc = "dumps"
    /\ result' = [kind |-> "list", items |-> <<TextContent(JsonDumps(parsed))>>]
    /\ pc' = "done"
    /\ UNCHANGED <<name, arguments, cmd, proc, exc, lines, i, packages, info,
                   current_key, current_value, parsed, parserCalls>>

\* except subprocess.CalledProcessError as e
HandleCalledProcessError ==
    /\ pc = "except"
    /\ exc = "CalledProcessError"
    /\ result' = [kind |-> "list",
                  items |-> <<TextContent(JsonDumps(
                                  CommandFailed(cmd, proc[1].stderr)))>>]
    /\ pc' = "done"
    /\ UNCHANGED <<name, arguments, cmd, proc, exc, lines, i, packages, info,
                   current_key, current_value, parsed, parserCalls>>

\* except Exception as e
HandleException ==
    /\ pc = "except"
    /\ exc # "CalledProcessError"
    /\ result' = [kind |-> "list",
                  items |-> <<TextContent(JsonDumps(UnexpectedError(exc)))>>]
    /\ pc' = "done"
    /\ UNCHANGED <<name, arguments, cmd, proc, exc, lines, i, packages, info,
                   current_key, current_value, parsed, parserCalls>>

----------------------------------------------------------------------------
(* One call of call_tool. *)

Init ==
    /\ pc = "start"
    /\ name \in ToolNames
    /\ arguments \in ArgumentDicts
    /\ cmd = <<>>
    /\ proc = None
    /\ exc = ""
    /\ lines = <<>>
    /\ i = 1
    /\ packages = <<>>
    /\ info = <<>>
    /\ current_key = None
    /\ current_value = <<>>
    /\ parsed = <<>>
    /\ result = [kind |-> "pending", items |-> <<>>]
    /\ parserCalls = 0

Next ==
    \/ FetchArgument
    \/ ReturnNone
    \/ SubprocessRun
    \/ SubprocessLaunchFails
    \/ ParseSearchStart
    \/ ParseSearchLine
    \/ ParseSearchReturn
    \/ ParseInfoStart
    \/ ParseInfoLine
    \/ ParseInfoReturn
    \/ Respond
    \/ HandleCalledProcessError
    \/ HandleException

Spec == Init /\ [][Next]_vars

----------------------------------------------------------------------------
(* parse_snap_info as a function of its lines and of its text. *)

RECURSIVE InfoLoop(_, _)
InfoLoop(st, ls) ==
    IF ls = <<>> THEN st ELSE InfoLoop(InfoStep(st, Head(ls)), Tail(ls))

ParseInfoLines(ls) ==
    LET st == InfoLoop([info |-> <<>>, current_key |-> None,
                        current_value |-> <<>>, raised |-> ""], ls) IN
    Commit(st.info, st.current_key, st.current_value)

ParseInfoText(output) == ParseInfoLines(TextLines(output))

----------------------------------------------------------------------------
(* The vocabulary of the specification, defined without the code's scans:  *)
(* trimming, lines, tokens, top-level field lines, continuation lines.     *)

\* the text without its leading and trailing whitespace
Trimmed(s) ==
    LET keep == {k \in 1..Len(s) : s[k] \notin Whitespace} IN
    IF keep = {} THEN <<>>
    ELSE SubSeq(s, CHOOSE a \in keep : \A k \in keep : a <= k,
                   CHOOSE b \in keep : \A k \in keep : k <= b)

\* the k-th element (from 1) of a set of integers in increasing order
Nth(S, k) == CHOOSE x \in S : Cardinality({y \in S : y < x}) = k - 1

\* the lines of a text: the pieces between its newline characters
LinesOf(s) ==
    LET cuts == {0, Len(s) + 1} \cup {k \in 1..Len(s) : s[k] = NL} IN
    [k \in 1..(Cardinality(cuts) - 1) |->
        SubSeq(s, Nth(cuts, k) + 1, Nth(cuts, k + 1) - 1)]

\* the whitespace-separated tokens of a line: its maximal runs of
\* non-whitespace characters, left to right
TokensOf(s) ==
    LET starts == {a \in 1..Len(s) :
                     s[a] \notin Whitespace /\ (a = 1 \/ s[a - 1] \in Whitespace)}
        EndOf(a) == CHOOSE b \in a..Len(s) :
                     /\ \A k \in a..b : s[k] \notin Whitespace
                     /\ (b = Len(s) \/ s[b + 1] \in Whitespace)
    IN [k \in 1..Cardinality(starts) |->
            SubSeq(s, Nth(starts, k), EndOf(Nth(starts, k)))]

\* the line begins with a whitespace character
LeadingWhitespace(line) == line # <<>> /\ line[1] \in Whitespace

\* a top-level field line: a colon, and no leading whitespace
FieldLine(line) == Contains(line, COLON) /\ ~LeadingWhitespace(line)

FirstColon(line) == CHOOSE k \in 1..Len(line) :
                        line[k] = COLON /\ \A m \in 1..(k - 1) : line[m] # COLON

\* the trimmed text before the first colon of a field line
KeyOf(line) == Trimmed(SubSeq(line, 1, FirstColon(line) - 1))

\* the trimmed text after the first colon of a field line
InitialFragment(line) == Trimmed(SubSeq(line, FirstColon(line) + 1, Len(line)))

\* the index of the first field line after line j, Len(ls) + 1 when none
NextFieldLine(ls, j) ==
    LET later == {m \in (j + 1)..Len(ls) : FieldLine(ls[m])} IN
    IF later = {} THEN Len(ls) + 1 ELSE Nth(later, 1)

\* the value of the field opened at line j: its initial fragment, then the
\* trimmed lines that begin with whitespace up to the next field line
FieldValue(ls, j) ==
    LET conts == {m \in (j + 1)..(NextFieldLine(ls, j) - 1) :
                     LeadingWhitespace(ls[m])} IN
    Join(<<NL>>, <<InitialFragment(ls[j])>>
                 \o [k \in 1..Cardinality(conts) |-> Trimmed(ls[Nth(conts, k)])])

\* the sequence without its j-th element
Without(ls, j) == SubSeq(ls, 1, j - 1) \o SubSeq(ls, j + 1, Len(ls))

\* the record of a row of at least five tokens
RecordOf(toks) ==
    [name |-> toks[1], version |-> toks[2], publisher |-> toks[3],
     notes |-> toks[4], summary |-> Join(<<SP>>, SubSeq(toks, 5, Len(toks)))]

\* the reference of parse_snap_search: one record per line after the first
\* that has at least five tokens, in line order
SearchReference(text) ==
    LET ls == LinesOf(Trimmed(text))
        rows == {j \in 2..Len(ls) : Len(TokensOf(ls[j])) >= 5}
    IN IF Len(ls) < 2 THEN <<>>
       ELSE [k \in 1..Cardinality(rows) |-> RecordOf(TokensOf(ls[Nth(rows, k)]))]

\* every character a text of the model may hold
Characters ==
    Alphabet \cup {TokenLetters[k] : k \in 1..Len(TokenLetters)} \cup {"l", "c", "e"}

IsStr(s) ==
    /\ DOMAIN s = 1..Len(s)
    /\ \A k \in 1..Len(s) : s[k] \in Characters

\* the parser returned to call_tool
SearchReturned == pc = "dumps" /\ name = "search_snaps"
InfoReturned == pc = "dumps" /\ name = "snap_info"

\* the lines of the trimmed standard output of the command
StdoutLines == LinesOf(Trimmed(proc[1].stdout))

----------------------------------------------------------------------------
(* The claims. *)

\* C1: parse_snap_info commits every opened field: each line of the trimmed
\* text that contains a colon and does not start with whitespace has its
\* trimmed key (empty or not) in the returned mapping.
C1_EveryFieldCommitted ==
    InfoReturned =>
        \A j \in 1..Len(StdoutLines) :
            FieldLine(StdoutLines[j]) => KeyOf(StdoutLines[j]) \in DOMAIN parsed

\* C2: every key of the mapping parse_snap_info returns is the trimmed key
\* of a line of the trimmed text that contains a colon and begins with no
\* whitespace character (neither a space nor a tab).
C2_KeysOnlyFromFieldLines ==
    InfoReturned =>
        \A k \in DOMAIN parsed :
            \E j \in 1..Len(StdoutLines) :
                FieldLine(StdoutLines[j]) /\ KeyOf(StdoutLines[j]) = k

\* C3: parse_snap_search returns the reference's sequence: no record for
\* fewer than 2 lines, else one record per line after the first with at
\* least 5 tokens, in line order, the summary its tokens from the 5th on
\* joined by single spaces.
C3_SearchMatchesReference ==
    SearchReturned => parsed = SearchReference(proc[1].stdout)

\* C3's case: two rows give two records in line order, the first with a
\* one-token summary and the second with a rejoined two-token summary.
C3_Witness ==
    /\ SearchReturned
    /\ Len(parsed) = 2
    /\ parsed[1].summary = <<"s">>
    /\ parsed[2].summary = <<"s", SP, "t">>
    /\ Contains(proc[1].stdout, TAB)

\* C4: the value stored for a field is the trimmed text after the first
\* colon of its field line followed by the following lines that begin with
\* whitespace, each trimmed, joined by single newlines.
C4_ValueIsFragmentsJoined ==
    InfoReturned =>
        \A j \in 1..Len(StdoutLines) :
            ( /\ FieldLine(StdoutLines[j])
              /\ KeyOf(StdoutLines[j]) \in DOMAIN parsed
              /\ \A m \in (j + 1)..Len(StdoutLines) :
                    FieldLine(StdoutLines[m])
                        => KeyOf(StdoutLines[m]) # KeyOf(StdoutLines[j]) )
            => parsed[KeyOf(StdoutLines[j])] = FieldValue(StdoutLines, j)

\* C5: last-write-wins: a key that opens a field more than once is in the
\* returned mapping, with the value the parser builds from the last
\* occurrence onwards alone.
C5_LastWriteWins ==
    InfoReturned =>
        \A j \in 1..Len(StdoutLines) : \A m \in (j + 1)..Len(StdoutLines) :
            ( /\ FieldLine(StdoutLines[j])
              /\ FieldLine(StdoutLines[m])
              /\ KeyOf(StdoutLines[j]) = KeyOf(StdoutLines[m])
              /\ NextFieldLine(StdoutLines, m) > Len(StdoutLines) )
            => LET k == KeyOf(StdoutLines[m])
                   last == ParseInfoLines(SubSeq(StdoutLines, m, Len(StdoutLines)))
               IN /\ k \in DOMAIN parsed
                  /\ k \in DOMAIN last
                  /\ parsed[k] = last[k]

\* C6: a line of the text that begins with whitespace and stands before any
\* field line is dropped: the parser returns what it returns for the text
\* without that line, the first line of the raw text included.
C6_StrayContinuationDropped ==
    InfoReturned =>
        LET raw == LinesOf(proc[1].stdout) IN
        \A j \in 1..Len(raw) :
            ( /\ LeadingWhitespace(raw[j])
              /\ \A m \in 1..(j - 1) : ~FieldLine(raw[m]) )
            => parsed = ParseInfoText(Join(<<NL>>, Without(raw, j)))

\* C7: neither parser fails: no exception leaves a parser, the loops stay
\* within their lines, parse_snap_search returns a
\* sequence of records of five strings and parse_snap_info a mapping from
\* strings to strings.
C7_ParsersNeverFail ==
    /\ exc \notin {"IndexError", "ValueError"}
    /\ pc \in {"search_loop", "info_loop"} => i \in 1..(Len(lines) + 1)
    /\ SearchReturned =>
          /\ \A k \in 1..Len(parsed) :
                /\ DOMAIN parsed[k] =
                       {"name", "version", "publisher", "notes", "summary"}
                /\ \A f \in DOMAIN parsed[k] : IsStr(parsed[k][f])
    /\ InfoReturned =>
          /\ \A k \in DOMAIN parsed : IsStr(k) /\ IsStr(parsed[k])

\* C7's case: an info text whose lines are all stray (an indented line with
\* no open field among them) returns the empty mapping.
C7_Witness ==
    /\ InfoReturned
    /\ DOMAIN parsed = {}
    /\ Len(lines) >= 2
    /\ \E j \in 1..Len(lines) : StartsWith(lines[j], <<SP>>) /\ Contains(lines[j], "a")

\* C8: once the command has exited non-zero no parser is invoked, and the
\* call returns the error payload: the command words joined by spaces, the
\* trimmed error stream or the placeholder when it is empty, and the
\* suggestion.
C8_FailureBypassesParsers ==
    (proc # None /\ proc[1].returncode # 0) =>
        /\ parserCalls = 0
        /\ pc \in {"except", "done"}
        /\ pc = "done" =>
              /\ result.kind = "list"
              /\ Len(result.items) = 1
              /\ result.items[1].type = "text"
              /\ LET payload == result.items[1].text.json IN
                 /\ DOMAIN payload = {"error", "command", "stderr", "suggestion"}
                 /\ payload.error = "Command failed"
                 /\ payload.command =
                        SnapWord \o <<SP>>
                        \o (IF name = "search_snaps" THEN SearchWord ELSE InfoWord)
                        \o <<SP>> \o arguments[ArgKey(name)]
                 /\ payload.stderr =
                        (IF proc[1].stderr = <<>> THEN NoDetails
                         ELSE Trimmed(proc[1].stderr))
                 /\ payload.suggestion # ""

\* C8's case: a failed command with an empty error stream has been answered.
C8_Witness ==
    /\ pc = "done"
    /\ proc # None
    /\ proc[1].returncode # 0
    /\ proc[1].stderr = <<>>
    /\ proc[1].stdout # <<>>
    /\ result.kind = "list"

\* C9: every call of call_tool, whatever the name, the arguments and the
\* outcome of the command, returns a list of exactly one text item.
C9_AlwaysOneTextItem ==
    pc = "done" =>
        /\ result.kind = "list"
        /\ Len(result.items) = 1
        /\ result.items[1].type = "text"

\* C10: a line that is neither a top-level field line nor a continuation
\* of an open field leaves current_key, current_value and info unchanged.
C10_DiscardedLineNoEffect ==
    [][( /\ pc = "info_loop"
         /\ i <= Len(lines)
         /\ ~FieldLine(lines[i])
         /\ ~(current_key # None /\ LeadingWhitespace(lines[i])) )
       => ( /\ current_key' = current_key
            /\ current_value' = current_value
            /\ info' = info )]_vars

====
